---- MODULE Spec2Model ----
(***************************************************************************)
(* A model of src/bot.py: the sliding-window RateLimiter, the download     *)
(* semaphore, download_video / recompress_video / remux_video and the      *)
(* handle_message coroutine, with several handle_message invocations in    *)
(* flight on one asyncio event loop.                                       *)
(*                                                                         *)
(* Each action is what one invocation does between two suspension points   *)
(* (an await, or a thread started with asyncio.to_thread finishing); calls *)
(* to the messaging transport touch nothing shared, so their outcome is    *)
(* part of the action that makes them.                                     *)
(*                                                                         *)
(* Time is counted in ticks, TicksPerSecond ticks to the second, so that   *)
(* datetime.now() has sub-second values while int(time.time()) has not.    *)
(* Sizes are counted in MiB.  MAX_PARALLEL_DOWNLOADS is chosen in Init;    *)
(* SpecLimiter builds RateLimiter with every quota and window within its   *)
(* bounds, Spec builds the bot's rate_limiter from RATE_LIMIT_REQUESTS and *)
(* RATE_LIMIT_WINDOW; SpecFair is Spec on an event loop where every        *)
(* download terminates and a waiter whose slot stays free is woken.        *)
(***************************************************************************)
EXTENDS Integers, Sequences, FiniteSets

VARIABLES
    now,             \* the wall clock, in ticks
    max_requests,    \* RateLimiter.max_requests
    window,          \* RateLimiter.window, in ticks
    requests,        \* RateLimiter.requests: identity -> list of timestamps
    calls,           \* history: the is_allowed calls made directly (SpecLimiter)
    capacity,        \* MAX_PARALLEL_DOWNLOADS as read from the environment
    sem,             \* DOWNLOAD_SEMAPHORE: free slots
    disk,            \* DOWNLOAD_DIR: path -> size of the file at that path
    pc,              \* per handle_message invocation: where it is suspended
    user,            \* per invocation: update.effective_user.id
    url,             \* per invocation: the class of update.message.text
    outtmpl,         \* per invocation: download_video's output template
    filepath,        \* per invocation: handle_message's local filepath
    exc,             \* per invocation: the exception in flight, or "none"
    status_msg,      \* per invocation: what the status message shows
    reply,           \* per invocation: what was answered or sent to the user
    admitted_at,     \* history: the tick at which is_allowed admitted it
    created          \* history: the paths written for this invocation so far

vars ==
    << now, max_requests, window, requests, calls, capacity, sem, disk, pc,
       user, url, outtmpl, filepath, exc, status_msg, reply,
       admitted_at, created >>

limiterVars ==
    << max_requests, window, requests >>

handlerVars ==
    << capacity, sem, disk, pc, user, url, outtmpl, filepath, exc,
       status_msg, reply, admitted_at, created >>

----------------------------------------------------------------------------
(* Bounds of the model *)

\* ticks to the second
TicksPerSecond ==
    2

\* the clock of a run of the limiter on its own stops at MaxTime ticks
MaxTime ==
    5

\* the clock readings of a run of the bot go up to MaxBotTime ticks
MaxBotTime ==
    2

\* the largest RATE_LIMIT_REQUESTS tried
MaxQuota ==
    2

\* the largest RATE_LIMIT_WINDOW tried, in seconds
MaxWindowSec ==
    2

\* the largest MAX_PARALLEL_DOWNLOADS tried
MaxParallel ==
    2

\* handle_message invocations in flight
NumHandlers ==
    2

\* is_allowed calls made directly, per run of SpecLimiter
MaxCalls ==
    5

\* RATE_LIMIT_REQUESTS and RATE_LIMIT_WINDOW (seconds) in the environment of
\* the bot modelled
RATE_LIMIT_REQUESTS ==
    1

RATE_LIMIT_WINDOW ==
    1

\* 50 * 1024 * 1024 bytes, counted in MiB
MAX_FILE_SIZE ==
    50

Users ==
    {1, 2}

Handlers ==
    1..NumHandlers

\* file sizes a backend may produce, in MiB: well under the ceiling, within
\* its last tenth, over it
Sizes ==
    {30, 48, 80}

\* classes of message text: a tweet link, anything else
Urls ==
    {"tweet", "other"}

----------------------------------------------------------------------------
(* RateLimiter *)

RECURSIVE SeqMin(_)
SeqMin(s) ==
    IF Len(s) = 1 THEN s[1]
    ELSE LET m == SeqMin(Tail(s)) IN IF s[1] < m THEN s[1] ELSE m

Max(a, b) ==
    IF a >= b THEN a ELSE b

\* a window that still holds a timestamp exactly one window old
InWindowInclusive(req_time, t) ==
    t - req_time <= window

\* now - req_time < self.window
InWindow(req_time, t) ==
    t - req_time < window

\* the list comprehension of lines 74-77
Prune(ts, t) ==
    SelectSeq(ts, LAMBDA req_time : InWindow(req_time, t))

\* a quota test that lets one request too many through
AtQuotaOffByOne(ts) ==
    Len(ts) > max_requests

\* len(self.requests[user_id]) >= self.max_requests
AtQuota(ts) ==
    Len(ts) >= max_requests

\* the truncated time left, without the floor of 1
WaitSecondsUnfloored(ts, t) ==
    (SeqMin(ts) + window - t) \div TicksPerSecond

\* int((wait_until - now).total_seconds()), then max(1, .)
WaitSeconds(ts, t) ==
    LET oldest_request == SeqMin(ts)
        wait_until     == oldest_request + window
    IN  Max(1, (wait_until - t) \div TicksPerSecond)

\* an admission that is not recorded
RecordNothing(ts, t) ==
    ts

\* self.requests[user_id].append(now)
Record(ts, t) ==
    Append(ts, t)

\* a limiter that records the denied attempt too
is_allowed_recording(u, t) ==
    LET kept == Prune(requests[u], t)
    IN  IF AtQuota(kept)
        THEN [allowed |-> FALSE, wait |-> WaitSeconds(kept, t),
              list |-> Record(kept, t)]
        ELSE [allowed |-> TRUE, wait |-> 0, list |-> Record(kept, t)]

\* is_allowed(user_id) at time t: the answer and the list it leaves
is_allowed(u, t) ==
    LET kept == Prune(requests[u], t)
    IN  IF AtQuota(kept)
        THEN [allowed |-> FALSE, wait |-> WaitSeconds(kept, t), list |-> kept]
        ELSE [allowed |-> TRUE, wait |-> 0, list |-> Record(kept, t)]

----------------------------------------------------------------------------
(* Initial states *)

NoPath ==
    [user |-> 0, ts |-> 0, sfx |-> "none"]

EmptyDisk ==
    [p \in {} |-> 0]

\* RateLimiter(quota, seconds), at time 0
InitLimiter(quota, seconds) ==
    /\ now = 0
    /\ max_requests = quota
    /\ window = seconds * TicksPerSecond
    /\ requests = [u \in Users |-> << >>]
    /\ calls = << >>

InitHandlers ==
    /\ sem = capacity
    /\ disk = EmptyDisk
    /\ pc = [h \in Handlers |-> "idle"]
    /\ user = [h \in Handlers |-> 0]
    /\ url = [h \in Handlers |-> "none"]
    /\ outtmpl = [h \in Handlers |-> NoPath]
    /\ filepath = [h \in Handlers |-> NoPath]
    /\ exc = [h \in Handlers |-> "none"]
    /\ status_msg = [h \in Handlers |-> "none"]
    /\ reply = [h \in Handlers |-> "none"]
    /\ admitted_at = [h \in Handlers |-> -1]
    /\ created = [h \in Handlers |-> {}]

----------------------------------------------------------------------------
(* The clock *)

Tick ==
    /\ now < MaxTime
    /\ now' = now + 1
    /\ UNCHANGED << limiterVars, calls, handlerVars >>

\* the clock read by the bot: now is the last reading, the next one is t
ReadClock(t) ==
    /\ t \in now..MaxBotTime
    /\ now' = t

----------------------------------------------------------------------------
(* The limiter called on its own *)

LimiterCall(u) ==
    /\ Len(calls) < MaxCalls
    /\ LET r == is_allowed(u, now)
       IN  /\ requests' = [requests EXCEPT ![u] = r.list]
           /\ calls' = Append(calls,
                  [user |-> u, t |-> now, allowed |-> r.allowed,
                   wait |-> r.wait, before |-> requests[u], after |-> r.list])
    /\ UNCHANGED << now, max_requests, window, handlerVars >>

InitL ==
    /\ \E quota \in 1..MaxQuota, seconds \in 1..MaxWindowSec :
         InitLimiter(quota, seconds)
    /\ capacity = 1
    /\ InitHandlers

NextL ==
    \/ Tick
    \/ \E u \in Users : LimiterCall(u)

SpecLimiter ==
    InitL /\ [][NextL]_vars

----------------------------------------------------------------------------
(* The download directory *)

Exists(p) ==
    p \in DOMAIN disk

\* a file of size s written at p, replacing what was there
WriteFile(d, p, s) ==
    [q \in (DOMAIN d) \cup {p} |-> IF q = p THEN s ELSE d[q]]

\* os.remove(p)
RemoveFile(d, p) ==
    [q \in (DOMAIN d) \ {p} |-> d[q]]

\* f"{DOWNLOAD_DIR}/video_{user_id}_{timestamp}.%(ext)s"
OutTemplate(u, t) ==
    [user |-> u, ts |-> t \div TicksPerSecond, sfx |-> "tmpl"]

\* ydl.prepare_filename(info): the template with its extension
Mp4(tmpl) ==
    [tmpl EXCEPT !.sfx = "mp4"]

\* the file the extraction backend writes to while it downloads
PartOf(tmpl) ==
    [tmpl EXCEPT !.sfx = "part"]

\* input_path.replace(".mp4", "_compressed.mp4")
CompressedOf(p) ==
    [p EXCEPT !.sfx = "compressed"]

\* input_path.replace(".mp4", "_remux.mp4")
RemuxOf(p) ==
    [p EXCEPT !.sfx = "remux"]

----------------------------------------------------------------------------
(* handle_message, from one suspension point to the next *)

\* a classifier that takes every text for a tweet link
is_twitter_url_any(text) ==
    TRUE

\* re.match of one of the three patterns
is_twitter_url(text) ==
    text = "tweet"

\* a gate that lets every request in
CanAcquireAlways ==
    TRUE

\* async with DOWNLOAD_SEMAPHORE: a slot is free
CanAcquire ==
    sem > 0

\* a block that keeps its slot when it is left
ReleaseNothing(s) ==
    s

\* leaving the async with block
Release(s) ==
    s + 1

\* file_size > MAX_FILE_SIZE
OverCeiling(size) ==
    size > MAX_FILE_SIZE

\* file_size > MAX_FILE_SIZE * 0.9
NearCeiling(size) ==
    10 * size > 9 * MAX_FILE_SIZE

\* the text the except clauses put into the status message
ErrorText(e, msg) ==
    CASE e = "DownloadError"  -> msg
      [] e = "ValueError"     -> "too_big"
      [] e = "TimeoutExpired" -> "timeout"
      [] OTHER                -> "internal_error"

DownloadErrorTexts ==
    {"private", "not_found", "no_video", "download_failed"}

\* what str(e) may lead to: for a DownloadError one of the four texts of
\* lines 416-427, for the other clauses nothing depends on it
ErrorMessages(e) ==
    IF e = "DownloadError" THEN DownloadErrorTexts ELSE {"any"}

ErrorTexts ==
    DownloadErrorTexts \cup {"too_big", "timeout", "internal_error"}

\* identities are interchangeable: the requests met so far come from
\* 1..k, the next one from 1..k+1
NextUsers ==
    {u \in Users : u = 1 \/ \E g \in Handlers : user[g] = u - 1}

\* lines 328-353: classify, rate-limit, answer or post the status message.
\* No await lies between is_twitter_url and the return of is_allowed.
\* Invocations are numbered in the order in which they start.
Receive(h) ==
    /\ pc[h] = "idle"
    /\ \A g \in Handlers : g < h => pc[g] # "idle"
    /\ \E u \in NextUsers, text \in Urls, replyOk \in BOOLEAN, t \in now..MaxBotTime :
         LET r == is_allowed(u, t)
         IN  /\ ReadClock(t)
             /\ user' = [user EXCEPT ![h] = u]
             /\ url' = [url EXCEPT ![h] = text]
             /\ IF ~is_twitter_url(text)
                THEN /\ reply' = [reply EXCEPT ![h] = "unsupported"]
                     /\ pc' = [pc EXCEPT ![h] = "done"]
                     /\ UNCHANGED << requests, admitted_at, status_msg >>
                ELSE /\ requests' = [requests EXCEPT ![u] = r.list]
                     /\ IF ~r.allowed
                        THEN /\ reply' = [reply EXCEPT ![h] = "rate_limited"]
                             /\ pc' = [pc EXCEPT ![h] = "done"]
                             /\ UNCHANGED << admitted_at, status_msg >>
                        ELSE /\ admitted_at' = [admitted_at EXCEPT ![h] = t]
                             /\ reply' = reply
                             /\ IF replyOk
                                THEN /\ status_msg' = [status_msg EXCEPT ![h] = "working"]
                                     /\ pc' = [pc EXCEPT ![h] = "gate"]
                                ELSE /\ status_msg' = status_msg
                                     /\ pc' = [pc EXCEPT ![h] = "done"]
    /\ UNCHANGED << max_requests, window, calls, capacity, sem, disk,
                    outtmpl, filepath, exc, created >>

\* line 359: entering async with DOWNLOAD_SEMAPHORE
Acquire(h) ==
    /\ pc[h] = "gate"
    /\ CanAcquire
    /\ sem' = sem - 1
    /\ pc' = [pc EXCEPT ![h] = "dl_start"]
    /\ UNCHANGED << now, limiterVars, calls, capacity, disk, user, url, outtmpl,
                    filepath, exc, status_msg, reply, admitted_at, created >>

\* lines 147-148: download_video starts in its thread and names its output
DlStart(h) ==
    /\ pc[h] = "dl_start"
    /\ \E t \in now..MaxBotTime :
         /\ ReadClock(t)
         /\ outtmpl' = [outtmpl EXCEPT ![h] = OutTemplate(user[h], t)]
    /\ pc' = [pc EXCEPT ![h] = "dl1"]
    /\ UNCHANGED << limiterVars, calls, capacity, sem, disk, user, url,
                    filepath, exc, status_msg, reply, admitted_at, created >>

\* what one run of the extraction backend may do: write a whole file of some
\* size; raise, leaving a partial file or none; or report a file that is not
\* at the path prepare_filename gives
DownloadOutcomes ==
    {[kind |-> "ok", size |-> s, partial |-> FALSE] : s \in Sizes}
        \cup {[kind |-> "error", size |-> 0, partial |-> b] : b \in BOOLEAN}
        \cup {[kind |-> "missing", size |-> 0, partial |-> FALSE]}

\* what one run of ffmpeg may do: write a whole output of some size; fail, or
\* be killed at the timeout, leaving a partial output or none
EncodeOutcomes ==
    {[kind |-> "ok", size |-> s, partial |-> FALSE] : s \in Sizes}
        \cup {[kind |-> k, size |-> 0, partial |-> b] :
                  k \in {"fail", "timeout"}, b \in BOOLEAN}

\* lines 165-186: the first attempt of download_video.  The backend writes a
\* file of some size, or raises (leaving a partial file or not), or reports a
\* file that is not there.
Attempt1(h) ==
    /\ pc[h] = "dl1"
    /\ \E o \in DownloadOutcomes :
         CASE o.kind = "ok" ->
                /\ disk' = WriteFile(disk, Mp4(outtmpl[h]), o.size)
                /\ created' = [created EXCEPT ![h] = @ \cup {Mp4(outtmpl[h])}]
                /\ pc' = [pc EXCEPT ![h] = "dl_ret"]
           [] o.kind = "error" /\ o.partial ->
                /\ disk' = WriteFile(disk, PartOf(outtmpl[h]), 0)
                /\ created' = [created EXCEPT ![h] = @ \cup {PartOf(outtmpl[h])}]
                /\ pc' = [pc EXCEPT ![h] = "dl2"]
           [] OTHER ->
                /\ pc' = [pc EXCEPT ![h] = "dl2"]
                /\ UNCHANGED << disk, created >>
    /\ UNCHANGED << now, limiterVars, calls, capacity, sem, user, url, outtmpl,
                    filepath, exc, status_msg, reply, admitted_at >>

\* lines 190-209: the second attempt; what it raises leaves download_video
Attempt2(h) ==
    /\ pc[h] = "dl2"
    /\ \E o \in DownloadOutcomes :
         CASE o.kind = "ok" ->
                /\ disk' = WriteFile(disk, Mp4(outtmpl[h]), o.size)
                /\ created' = [created EXCEPT ![h] = @ \cup {Mp4(outtmpl[h])}]
                /\ pc' = [pc EXCEPT ![h] = "dl_ret"]
                /\ exc' = exc
           [] o.kind = "error" ->
                /\ disk' = IF o.partial THEN WriteFile(disk, PartOf(outtmpl[h]), 0)
                                         ELSE disk
                /\ created' = IF o.partial
                                THEN [created EXCEPT ![h] = @ \cup {PartOf(outtmpl[h])}]
                                ELSE created
                /\ pc' = [pc EXCEPT ![h] = "dl_raise"]
                /\ exc' = [exc EXCEPT ![h] = "DownloadError"]
           [] OTHER ->
                /\ pc' = [pc EXCEPT ![h] = "dl_raise"]
                /\ exc' = [exc EXCEPT ![h] = "Exception"]
                /\ UNCHANGED << disk, created >>
    /\ UNCHANGED << now, limiterVars, calls, capacity, sem, user, url, outtmpl,
                    filepath, status_msg, reply, admitted_at >>

\* await status_msg.edit_text(text): the message shows text and the coroutine
\* goes on to label, or the call raises
Proceed(h, label, text, editOk) ==
    IF editOk
    THEN /\ status_msg' = [status_msg EXCEPT ![h] = text]
         /\ pc' = [pc EXCEPT ![h] = label]
         /\ exc' = exc
    ELSE /\ status_msg' = status_msg
         /\ pc' = [pc EXCEPT ![h] = "finish"]
         /\ exc' = [exc EXCEPT ![h] = "Exception"]

\* an exception leaves the try block; e names the except clause that takes
\* it: DownloadError, ValueError, TimeoutExpired, or Exception for the rest
\* (FileNotFoundError and other OSError, RuntimeError, the transport's errors)
Raise(h, e) ==
    /\ status_msg' = status_msg
    /\ pc' = [pc EXCEPT ![h] = "finish"]
    /\ exc' = [exc EXCEPT ![h] = e]

\* lines 359-401: the coroutine resumes when download_video has returned or
\* raised: the slot is given back, the file is measured and the branch taken
DlReturn(h) ==
    /\ pc[h] \in {"dl_ret", "dl_raise"}
    /\ sem' = Release(sem)
    /\ IF pc[h] = "dl_raise"
       THEN /\ pc' = [pc EXCEPT ![h] = "finish"]
            /\ UNCHANGED << filepath, exc, status_msg >>
       ELSE LET fp == Mp4(outtmpl[h])
            IN  /\ filepath' = [filepath EXCEPT ![h] = fp]
                /\ IF ~Exists(fp)
                   THEN Raise(h, "Exception")
                   ELSE LET file_size == disk[fp]
                        IN  \E editOk \in BOOLEAN :
                              IF OverCeiling(file_size)
                              THEN Proceed(h, "recompress", "compressing", editOk)
                              ELSE IF NearCeiling(file_size)
                                   THEN Proceed(h, "remux", "optimizing", editOk)
                                   ELSE Proceed(h, "send", "sending", editOk)
    /\ UNCHANGED << now, limiterVars, calls, capacity, disk, user, url, outtmpl,
                    reply, admitted_at, created >>

\* lines 244-279: recompress_video in its thread
Recompress(h) ==
    /\ pc[h] = "recompress"
    /\ LET out == CompressedOf(filepath[h])
       IN  \E o \in EncodeOutcomes :
             IF o.kind = "ok" /\ Exists(filepath[h])
             THEN /\ disk' = WriteFile(disk, out, o.size)
                  /\ created' = [created EXCEPT ![h] = @ \cup {out}]
                  /\ pc' = [pc EXCEPT ![h] = "rc_ret"]
                  /\ exc' = exc
             ELSE /\ disk' = IF o.partial /\ Exists(filepath[h])
                              THEN WriteFile(disk, out, 0) ELSE disk
                  /\ created' = IF o.partial /\ Exists(filepath[h])
                                 THEN [created EXCEPT ![h] = @ \cup {out}]
                                 ELSE created
                  /\ pc' = [pc EXCEPT ![h] = "finish"]
                  /\ exc' = [exc EXCEPT ![h] =
                                IF o.kind = "timeout" THEN "TimeoutExpired"
                                                    ELSE "Exception"]
    /\ UNCHANGED << now, limiterVars, calls, capacity, sem, user, url, outtmpl,
                    filepath, status_msg, reply, admitted_at >>

\* lines 378-386 and 401: the original is removed, the compressed file
\* measured
RcReturn(h) ==
    /\ pc[h] = "rc_ret"
    /\ LET out == CompressedOf(filepath[h])
       IN  IF ~Exists(filepath[h])
           THEN /\ Raise(h, "Exception")
                /\ UNCHANGED << disk, filepath >>
           ELSE /\ disk' = RemoveFile(disk, filepath[h])
                /\ filepath' = [filepath EXCEPT ![h] = out]
                /\ IF ~Exists(out)
                   THEN Raise(h, "Exception")
                   ELSE LET file_size == disk[out]
                        IN  IF OverCeiling(file_size)
                            THEN Raise(h, "ValueError")
                            ELSE \E editOk \in BOOLEAN :
                                   Proceed(h, "send", "sending", editOk)
    /\ UNCHANGED << now, limiterVars, calls, capacity, sem, user, url, outtmpl,
                    reply, admitted_at, created >>

\* lines 211-242: remux_video in its thread; it returns its output, or its
\* input when ffmpeg failed, or subprocess.run raises TimeoutExpired
Remux(h) ==
    /\ pc[h] = "remux"
    /\ LET out == RemuxOf(filepath[h])
       IN  \E o \in EncodeOutcomes :
             IF o.kind = "ok" /\ Exists(filepath[h])
             THEN /\ disk' = WriteFile(disk, out, o.size)
                  /\ created' = [created EXCEPT ![h] = @ \cup {out}]
                  /\ pc' = [pc EXCEPT ![h] = "rx_ret_out"]
                  /\ exc' = exc
             ELSE /\ disk' = IF o.partial /\ Exists(filepath[h])
                              THEN WriteFile(disk, out, 0) ELSE disk
                  /\ created' = IF o.partial /\ Exists(filepath[h])
                                 THEN [created EXCEPT ![h] = @ \cup {out}]
                                 ELSE created
                  /\ IF o.kind = "timeout"
                     THEN /\ pc' = [pc EXCEPT ![h] = "finish"]
                          /\ exc' = [exc EXCEPT ![h] = "TimeoutExpired"]
                     ELSE /\ pc' = [pc EXCEPT ![h] = "rx_ret_in"]
                          /\ exc' = exc
    /\ UNCHANGED << now, limiterVars, calls, capacity, sem, user, url, outtmpl,
                    filepath, status_msg, reply, admitted_at >>

\* lines 395-401: a remuxed file replaces the original
RemuxReturn(h) ==
    /\ pc[h] \in {"rx_ret_out", "rx_ret_in"}
    /\ LET out == RemuxOf(filepath[h])
       IN  IF pc[h] = "rx_ret_in"
           THEN /\ \E editOk \in BOOLEAN : Proceed(h, "send", "sending", editOk)
                /\ UNCHANGED << disk, filepath >>
           ELSE IF ~Exists(filepath[h])
                THEN /\ Raise(h, "Exception")
                     /\ UNCHANGED << disk, filepath >>
                ELSE /\ disk' = RemoveFile(disk, filepath[h])
                     /\ filepath' = [filepath EXCEPT ![h] = out]
                     /\ IF ~Exists(out)
                        THEN Raise(h, "Exception")
                        ELSE \E editOk \in BOOLEAN :
                               Proceed(h, "send", "sending", editOk)
    /\ UNCHANGED << now, limiterVars, calls, capacity, sem, user, url, outtmpl,
                    reply, admitted_at, created >>

\* lines 403-413: the file is opened and handed to reply_video or
\* reply_animation, then the status message is deleted
Send(h) ==
    /\ pc[h] = "send"
    /\ IF ~Exists(filepath[h])
       THEN /\ Raise(h, "Exception")
            /\ reply' = reply
       ELSE /\ \E sendOk \in BOOLEAN, deleteOk \in BOOLEAN :
                 IF ~sendOk
                 THEN /\ Raise(h, "Exception")
                      /\ reply' = reply
                 ELSE /\ reply' = [reply EXCEPT ![h] = "media"]
                      /\ IF deleteOk
                         THEN /\ status_msg' = [status_msg EXCEPT ![h] = "deleted"]
                              /\ pc' = [pc EXCEPT ![h] = "finish"]
                              /\ exc' = exc
                         ELSE Raise(h, "Exception")
    /\ UNCHANGED << now, limiterVars, calls, capacity, sem, disk, user, url,
                    outtmpl, filepath, admitted_at, created >>

\* lines 415-452: the except clause for the exception in flight edits the
\* status message (the edit may itself raise), then the finally block removes
\* the file filepath names, and handle_message returns (its locals are gone)
Finish(h) ==
    /\ pc[h] = "finish"
    /\ IF exc[h] = "none"
       THEN status_msg' = status_msg
       ELSE \E editOk \in BOOLEAN, msg \in ErrorMessages(exc[h]) :
              status_msg' = IF editOk
                            THEN [status_msg EXCEPT ![h] = ErrorText(exc[h], msg)]
                            ELSE status_msg
    /\ disk' = IF filepath[h] # NoPath /\ Exists(filepath[h])
               THEN RemoveFile(disk, filepath[h])
               ELSE disk
    /\ pc' = [pc EXCEPT ![h] = "done"]
    /\ outtmpl' = [outtmpl EXCEPT ![h] = NoPath]
    /\ filepath' = [filepath EXCEPT ![h] = NoPath]
    /\ exc' = [exc EXCEPT ![h] = "none"]
    /\ created' = [created EXCEPT ![h] = {}]
    /\ UNCHANGED << now, limiterVars, calls, capacity, sem, user, url, reply,
                    admitted_at >>

----------------------------------------------------------------------------
(* The bot: handle_message invocations in flight together *)

Init ==
    /\ InitLimiter(RATE_LIMIT_REQUESTS, RATE_LIMIT_WINDOW)
    /\ capacity \in 1..MaxParallel
    /\ InitHandlers

Next ==
    \E h \in Handlers :
         \/ Receive(h)
         \/ Acquire(h)
         \/ DlStart(h)
         \/ Attempt1(h)
         \/ Attempt2(h)
         \/ DlReturn(h)
         \/ Recompress(h)
         \/ RcReturn(h)
         \/ Remux(h)
         \/ RemuxReturn(h)
         \/ Send(h)
         \/ Finish(h)

Spec ==
    Init /\ [][Next]_vars

\* download_video for h goes on: the thread of asyncio.to_thread runs, and
\* the coroutine resumes when it has ended
DownloadStep(h) ==
    DlStart(h) \/ Attempt1(h) \/ Attempt2(h) \/ DlReturn(h)

\* the bot when every download terminates and the event loop wakes a
\* coroutine that waits for a slot that stays free
SpecFair ==
    Spec /\ \A h \in Handlers : WF_vars(Acquire(h)) /\ WF_vars(DownloadStep(h))

----------------------------------------------------------------------------
(* Notions the properties use *)

InFlight(h) ==
    pc[h] \notin {"idle", "done"}

Admitted(h) ==
    admitted_at[h] # -1

\* download_video is running for h
Downloading(h) ==
    pc[h] \in {"dl_start", "dl1", "dl2"}

\* h is inside the async with block: it has a slot and has not given it back
HoldsSlot(h) ==
    pc[h] \in {"dl_start", "dl1", "dl2", "dl_ret", "dl_raise"}

\* the calls of SpecLimiter made by identity u, in order
CallsOf(u) ==
    SelectSeq(calls, LAMBDA c : c.user = u)

\* every element of the list ts is within the window that ends at t
AllInWindow(ts, t) ==
    \A i \in 1..Len(ts) : ts[i] <= t /\ t - ts[i] < window

----------------------------------------------------------------------------
(* C1: at no time are more download_video executions in progress than       *)
(* MAX_PARALLEL_DOWNLOADS, whatever the number of requests and their        *)
(* interleaving.                                                           *)
C1_GateBound ==
    Cardinality({h \in Handlers : Downloading(h)}) <= capacity

\* every slot is taken and a request waits at the gate
C1_Witness ==
    /\ Cardinality({h \in Handlers : Downloading(h)}) = capacity
    /\ \E h \in Handlers : pc[h] = "gate"

(* C2: whenever handle_message is about to open its file for               *)
(* reply_video / reply_animation, that file is within MAX_FILE_SIZE,        *)
(* also when it is the output of remux_video.                              *)
C2_SentWithinCeiling ==
    \A h \in Handlers :
        (pc[h] = "send" /\ Exists(filepath[h])) =>
            disk[filepath[h]] <= MAX_FILE_SIZE

(* C3: when handle_message returns for an admitted request, none of the     *)
(* files written for that request is left in the download directory.       *)
C3_NoFileLeft ==
    [][\A h \in Handlers :
          (pc[h] # "done" /\ pc'[h] = "done" /\ Admitted(h)') =>
              created[h] \cap (DOMAIN disk') = {}]_vars

(* C4: whenever is_allowed answers allowed, the list it leaves for that     *)
(* identity has at most max_requests timestamps, all within the window     *)
(* that ends at the time of the call.                                       *)
C4_AllowedWithinQuota ==
    \A k \in 1..Len(calls) :
        calls[k].allowed =>
            /\ Len(calls[k].after) <= max_requests
            /\ AllInWindow(calls[k].after, calls[k].t)

\* an allowed call that fills a quota of at least two after an earlier
\* timestamp was pruned
C4_Witness ==
    \E k \in 1..Len(calls) :
        /\ calls[k].allowed
        /\ max_requests >= 2
        /\ Len(calls[k].after) = max_requests
        /\ Len(calls[k].before) = max_requests

(* C5: of the calls one identity makes less than a window after its first,  *)
(* the first max_requests are allowed and the others denied; its first     *)
(* call a window or more after its first call is allowed.                  *)
C5_WindowQuota ==
    \A u \in Users :
        LET c == CallsOf(u)
        IN  \A k \in 1..Len(c) :
              IF c[k].t - c[1].t < window
              THEN c[k].allowed <=> (k <= max_requests)
              ELSE (\A j \in 1..(k - 1) : c[j].t - c[1].t < window)
                       => c[k].allowed

\* an identity used its quota of two, was denied, and was allowed again a
\* window after its first call
C5_Witness ==
    \E u \in Users :
        LET c == CallsOf(u)
        IN  /\ max_requests = 2
            /\ Len(c) >= 4
            /\ c[2].allowed /\ ~c[3].allowed /\ c[3].t - c[1].t < window
            /\ c[4].t - c[1].t >= window /\ c[4].allowed

(* C6: requests of one identity that are in flight together never pass the  *)
(* limiter more than max_requests times within one window, whatever their  *)
(* interleaving.                                                           *)
C6_NoQuotaOverrun ==
    \A h \in Handlers :
        Admitted(h) =>
            Cardinality({g \in Handlers :
                            /\ Admitted(g)
                            /\ user[g] = user[h]
                            /\ admitted_at[g] <= admitted_at[h]
                            /\ admitted_at[h] - admitted_at[g] < window})
                <= max_requests

\* a request is denied while another request of the same identity, admitted
\* less than a window before, is still in flight
C6_Witness ==
    \E h, g \in Handlers :
        /\ h # g
        /\ user[h] = user[g]
        /\ InFlight(g) /\ Admitted(g)
        /\ reply[h] = "rate_limited"
        /\ now - admitted_at[g] < window

(* C7: two requests in flight at the same time never have the same         *)
(* download output path.                                                   *)
C7_DistinctPaths ==
    \A h, g \in Handlers :
        (h # g /\ InFlight(h) /\ InFlight(g) /\ outtmpl[h] # NoPath) =>
            outtmpl[h] # outtmpl[g]

(* C8: a status-message call that fails does not change the outcome: in     *)
(* particular a request whose file was delivered does not end with an      *)
(* error text in its status message.                                       *)
C8_DeliveredNotReported ==
    \A h \in Handlers :
        (pc[h] = "done" /\ reply[h] = "media") =>
            status_msg[h] \notin ErrorTexts

(* C9: an admitted request whose status message was posted and that has     *)
(* ended has exactly one terminal outcome: the file was delivered and the  *)
(* status message removed, or nothing was delivered and the status message *)
(* shows one final error text.                                             *)
C9_OneTerminalOutcome ==
    \A h \in Handlers :
        (pc[h] = "done" /\ Admitted(h) /\ status_msg[h] # "none") =>
            \/ reply[h] = "media" /\ status_msg[h] = "deleted"
            \/ reply[h] # "media" /\ status_msg[h] \in ErrorTexts

(* C10: download_video returns a file only if its size is within            *)
(* MAX_FILE_SIZE: an attempt that downloads an oversized file is not        *)
(* accepted.                                                               *)
C10_AcceptedWithinCeiling ==
    \A h \in Handlers :
        (pc[h] = "dl_ret" /\ Exists(Mp4(outtmpl[h]))) =>
            disk[Mp4(outtmpl[h])] <= MAX_FILE_SIZE

(* C11: within one request at most one attempt's file is on disk at any    *)
(* time: when the second download attempt starts, no file or partial file  *)
(* of the first attempt is left.                                           *)
C11_FailedAttemptCleared ==
    \A h \in Handlers :
        pc[h] = "dl2" => created[h] \cap (DOMAIN disk) = {}

C13_GateReleased ==
    /\ [](sem + Cardinality({h \in Handlers : HoldsSlot(h)}) = capacity)
    /\ \A h \in Handlers : (pc[h] = "gate") ~> (pc[h] = "dl_start")

\* a download has raised, its slot is free again, and with all slots free
\* another request waits at the gate
C13_Witness ==
    \E h, g \in Handlers :
        /\ pc[h] = "finish" /\ exc[h] = "DownloadError"
        /\ pc[g] = "gate"
        /\ sem = capacity

(* C14: when recompress_video or remux_video has timed out, the partial     *)
(* output that call wrote is no longer on disk when handle_message         *)
(* returns.                                                                *)
C14_PartialOutputRemoved ==
    [][\A h \in Handlers :
          (pc[h] = "finish" /\ pc'[h] = "done" /\ exc[h] = "TimeoutExpired") =>
              {CompressedOf(filepath[h]), RemuxOf(filepath[h])}
                  \cap created[h] \cap (DOMAIN disk') = {}]_vars

(* C15: a denied is_allowed call adds no timestamp: the list stored for the *)
(* identity is the same after the call as before it, and when the          *)
(* identity's next call is denied as well, the time at which its oldest    *)
(* timestamp leaves the window has not moved.                              *)
C15_DeniedNotRecorded ==
    /\ \A k \in 1..Len(calls) :
          ~calls[k].allowed => calls[k].after = calls[k].before
    /\ \A u \in Users :
          LET c == CallsOf(u)
          IN  \A k \in 1..(Len(c) - 1) :
                (~c[k].allowed /\ ~c[k + 1].allowed) =>
                    SeqMin(c[k + 1].after) + window = SeqMin(c[k].after) + window

\* an identity is denied twice at different times and allowed once the
\* oldest timestamp has left the window
C15_Witness ==
    \E u \in Users :
        LET c == CallsOf(u)
        IN  \E k \in 1..(Len(c) - 2) :
              /\ ~c[k].allowed /\ ~c[k + 1].allowed /\ c[k + 2].allowed
              /\ c[k].t < c[k + 1].t
              /\ c[k + 2].t = SeqMin(c[k].after) + window

(* C16: the wait a denied is_allowed call returns is the time left until    *)
(* the oldest remaining timestamp leaves the window, rounded up to whole   *)
(* seconds, and at least 1.                                                *)
C16_WaitIsCeiling ==
    \A k \in 1..Len(calls) :
        ~calls[k].allowed =>
            LET remaining == SeqMin(calls[k].after) + window - calls[k].t
            IN  calls[k].wait =
                    Max(1, (remaining + TicksPerSecond - 1) \div TicksPerSecond)

(* C17: the wait a denied is_allowed call returns is a whole number of      *)
(* seconds, at least 1 and at most the window.                             *)
C17_WaitInRange ==
    \A k \in 1..Len(calls) :
        ~calls[k].allowed =>
            calls[k].wait \in 1..(window \div TicksPerSecond)

\* a denial less than a second before the oldest timestamp leaves the
\* window (the floor at 1 acts), and a denial at the very time of the
\* admission with a window of two seconds (the wait is the whole window)
C17_Witness ==
    /\ \E k \in 1..Len(calls) :
          /\ ~calls[k].allowed
          /\ SeqMin(calls[k].after) + window - calls[k].t < TicksPerSecond
          /\ calls[k].wait = 1
    /\ \E j \in 1..Len(calls) :
          /\ ~calls[j].allowed
          /\ window = 2 * TicksPerSecond
          /\ calls[j].wait = 2

(* C18: removing the original after recompress_video or remux_video has     *)
(* written its output raises nothing when the original is already gone     *)
(* (another request removed it): handle_message goes on to the next line   *)
(* and takes the output as its file.                                       *)
C18_RemovalTolerant ==
    [][\A h \in Handlers :
          LET out == IF pc[h] = "rc_ret" THEN CompressedOf(filepath[h])
                                         ELSE RemuxOf(filepath[h])
          IN  (/\ pc[h] \in {"rc_ret", "rx_ret_out"}
               /\ pc'[h] # pc[h]
               /\ ~Exists(filepath[h])
               /\ Exists(out))
                => filepath'[h] = out]_vars

(* C19: handle_message classifies, then asks the limiter, then waits at     *)
(* the gate, then downloads.  A request whose text is no tweet link is      *)
(* answered without a call of is_allowed (the limiter's lists stay as they *)
(* are); a request that is unsupported or denied ends there: it takes no   *)
(* slot, does not start download_video and writes no file; a slot is only *)
(* taken from the gate, the gate only reached by an admitted request, and  *)
(* download_video only started with a slot.                                *)
C19_StagesInOrder ==
    /\ [][\A h \in Handlers :
            (pc[h] = "idle" /\ pc'[h] # "idle" /\ url'[h] = "other") =>
                /\ requests' = requests
                /\ reply'[h] = "unsupported"
                /\ ~Admitted(h)']_vars
    /\ [][\A h \in Handlers :
            (pc[h] = "idle" /\ pc'[h] # "idle" /\ ~Admitted(h)') =>
                /\ pc'[h] = "done"
                /\ reply'[h] \in {"unsupported", "rate_limited"}
                /\ UNCHANGED << sem, disk, created, outtmpl >>]_vars
    /\ [][\A h \in Handlers :
            /\ (pc[h] = "done" /\ ~Admitted(h)) =>
                  (pc'[h] = "done" /\ ~Admitted(h)')
            /\ (pc'[h] = "gate" /\ pc[h] # "gate") =>
                  (pc[h] = "idle" /\ url'[h] = "tweet" /\ Admitted(h)')
            /\ (pc'[h] = "dl_start" /\ pc[h] # "dl_start") => pc[h] = "gate"
            /\ (pc'[h] = "dl1" /\ pc[h] # "dl1") => pc[h] = "dl_start"]_vars
    /\ [](\A h \in Handlers :
            ~Admitted(h) =>
                /\ pc[h] \in {"idle", "done"}
                /\ created[h] = {} /\ outtmpl[h] = NoPath)

\* an identity's text that is no tweet link was answered, and less than a
\* window later a tweet link of the same identity, whose quota is one
\* request, has passed the limiter and the gate
C19_Witness ==
    \E h, g \in Handlers :
        /\ user[h] = user[g]
        /\ pc[h] = "done" /\ reply[h] = "unsupported"
        /\ pc[g] = "dl_start"
        /\ max_requests = 1 /\ now < window

(* C20: when is_allowed has denied an identity with wait w and the          *)
(* identity's next call comes exactly w seconds after the denied one, that *)
(* call is allowed.                                                        *)
C20_WaitSuffices ==
    \A u \in Users :
        LET c == CallsOf(u)
        IN  \A k \in 1..(Len(c) - 1) :
              (/\ ~c[k].allowed
               /\ c[k + 1].t = c[k].t + c[k].wait * TicksPerSecond)
                => c[k + 1].allowed

====
